---- MODULE Spec2Model ----
(***************************************************************************)
(* Celestron AUX protocol: frame codec (Packet), frame receiver            *)
(* (Communicator::readPacket) and the bounded-retry exchange               *)
(* (Communicator::sendCommand) of src/src/celestron_aux.cpp, run against   *)
(* a serial transport whose device side is the environment.                *)
(*                                                                         *)
(* Bytes are naturals 0..255.  Sequences are 1-based, so the C++ index i   *)
(* is position i+1 here.  Time is counted in milliseconds and advances in  *)
(* steps of TickMs while the receiver polls an empty input buffer.         *)
(***************************************************************************)
EXTENDS Integers, Sequences, FiniteSets, TLC

\* ---------------------------------------------------------------- constants
AUX_HDR == 59
RETRY_COUNT == 3
TIMEOUT_MS == 2000
QUIET_MS == 100

APP == 32
HC == 4
FOCUSER == 18
AZM == 16
GET_VER == 254
MC_GET_POSITION == 1
MC_GOTO_FAST == 2
MC_SLEW_DONE == 19
MC_MOVE_POS == 36
MC_MOVE_NEG == 37
\* main.cpp: const unsigned long STATUS_CHECK_INTERVAL = 500
STATUS_CHECK_INTERVAL == 500

\* ---------------------------------------------------------------- bounds
\* granularity of the clock: one Tick is TickMs milliseconds of polling
TickMs == 50
\* unread bytes the serial input buffer holds at a time
MaxRx == 1
\* bytes the streaming device delivers to one attempt (SpecStream)
MaxStream == 44
\* the time the application is followed for, in ms since boot
MaxMillis == 1200

\* ---------------------------------------------------------------- codec
\* a constructor that forgets to count the command byte
Packet_OneShort(src, dst, c, d) ==
    [length |-> Len(d) + 2, source |-> src, destination |-> dst,
     command |-> c, data |-> d]

\* Packet::Packet(source, destination, command, data)
Packet(src, dst, c, d) ==
    [length |-> Len(d) + 3, source |-> src, destination |-> dst,
     command |-> c, data |-> d]

\* packet[i] + ... + packet[last], as far as the packet goes; the sum is
\* split in halves to keep the recursion shallow
RECURSIVE SumFrom(_, _, _)
SumFrom(packet, i, last) ==
    LET hi == IF last > Len(packet) THEN Len(packet) ELSE last
    IN  IF i > hi THEN 0
        ELSE IF i = hi THEN packet[i]
        ELSE SumFrom(packet, i, (i + hi) \div 2)
             + SumFrom(packet, (i + hi) \div 2 + 1, hi)

\* a checksum loop that stops one byte early
calculateChecksum_SkipLast(packet) ==
    LET sum == SumFrom(packet, 2, packet[2] + 1)
    IN  (256 - (sum % 256)) % 256

\* a checksum that is the sum itself, not its two's complement
calculateChecksum_NoNegate(packet) ==
    LET sum == SumFrom(packet, 2, packet[2] + 2)
    IN  sum % 256

\* Packet::calculateChecksum: for (i = 1; i < packet[1] + 2; i++) sum += packet[i]
calculateChecksum(packet) ==
    LET sum == SumFrom(packet, 2, packet[2] + 2)
    IN  (256 - (sum % 256)) % 256

\* fillBuffer without the data copy loop
fillBuffer_NoData(p) ==
    LET n == p.length + 3
        raw == [i \in 1..n |->
                  IF i = 1 THEN AUX_HDR
                  ELSE IF i = 2 THEN p.length % 256
                  ELSE IF i = 3 THEN p.source
                  ELSE IF i = 4 THEN p.destination
                  ELSE IF i = 5 THEN p.command
                  ELSE 0]
    IN  [raw EXCEPT ![n] = calculateChecksum(raw)]

\* Packet::fillBuffer: resize to length + 3, fill, checksum into the last byte
fillBuffer(p) ==
    LET n == p.length + 3
        raw == [i \in 1..n |->
                  IF i = 1 THEN AUX_HDR
                  ELSE IF i = 2 THEN p.length % 256
                  ELSE IF i = 3 THEN p.source
                  ELSE IF i = 4 THEN p.destination
                  ELSE IF i = 5 THEN p.command
                  ELSE IF i - 5 <= Len(p.data) THEN p.data[i - 5]
                  ELSE 0]
    IN  [raw EXCEPT ![n] = calculateChecksum(raw)]

\* Packet::parse: the result carries the error kind and the fields as the
\* code has assigned them when it returns
NoPacket ==
    [ok |-> FALSE, err |-> "None", length |-> 0, source |-> APP,
     destination |-> FOCUSER, command |-> GET_VER, data |-> <<>>]

\* a size floor that lets five bytes through
IsTooShort_Five(packet) == Len(packet) < 5

\* Packet::parse: if (packet.size() < 6)
IsTooShort(packet) == Len(packet) < 6

\* a header check that accepts 0xBB too
HeaderOk_LowBits(packet) == packet[1] % 128 = AUX_HDR

\* Packet::parse: packet[0] != AUX_HDR is "Invalid header"
HeaderOk(packet) == packet[1] = AUX_HDR

\* a checksum test that always passes
ChecksumOk_Any(packet) == TRUE

\* Packet::parse: calculatedChecksum != receivedChecksum is a mismatch
ChecksumOk(packet) == calculateChecksum(packet) = packet[packet[2] + 3]

parse(packet) ==
    IF IsTooShort(packet) THEN [NoPacket EXCEPT !.err = "TooShort"]
    ELSE IF ~ HeaderOk(packet) THEN [NoPacket EXCEPT !.err = "BadHeader"]
    ELSE IF Len(packet) # packet[2] + 3
         THEN [NoPacket EXCEPT !.err = "SizeMismatch", !.length = packet[2]]
    ELSE LET fields == [ok |-> TRUE, err |-> "None", length |-> packet[2],
                        source |-> packet[3], destination |-> packet[4],
                        command |-> packet[5],
                        data |-> SubSeq(packet, 6, Len(packet) - 1)]
         IN  IF ~ ChecksumOk(packet)
             THEN [fields EXCEPT !.ok = FALSE, !.err = "ChecksumMismatch"]
             ELSE fields

\* ---------------------------------------------------------------- transport
\* A byte on the receive side is <<value, w, e>>: w is the number of request
\* writes of the current call that had happened when the byte arrived, e the
\* number that had happened when the device began to send the byte's frame
\* (recorded only in behaviours that keep the watch, 0 otherwise).
\* A byte on the line is <<value, e>>.
Bytes(s) == [i \in DOMAIN s |-> s[i][1]]

Stamp(s, w) == [i \in DOMAIN s |-> <<s[i], w, 0>>]

\* the bytes of a frame the device begins to send after e request writes
Sent(s, e) == [i \in DOMAIN s |-> <<s[i], e>>]

\* flushSerial that drains nothing
flushSerial_Keep(input) == input

\* Communicator::flushSerial: while (serial.available()) serial.read()
flushSerial(input) == <<>>

\* sendPacket that takes any non-empty write for a complete one
WriteComplete_NonZero(bytesWritten, txBuffer) == bytesWritten > 0

\* Communicator::sendPacket: bytesWritten != txBuffer.size() is a failure
WriteComplete(bytesWritten, txBuffer) == bytesWritten = Len(txBuffer)

\* what serial.write may report for a frame: nothing, all but one byte, all
WriteCounts(txBuffer) == {0, Len(txBuffer) - 1, Len(txBuffer)}

\* ---------------------------------------------------------------- receiver
\* a wait loop that ends after half the quiet interval
StillWaiting_Short(sinceLast) == sinceLast < QUIET_MS \div 2

\* readPacket: while (millis() - startTime < 100)
StillWaiting(sinceLast) == sinceLast < QUIET_MS

\* a size pre-check that forgets the checksum byte
expectedSize_NoChecksum(length) == length + 2

\* readPacket: size_t expectedSize = length + 3 (header, length, checksum)
expectedSize(length) == length + 3

\* readPacket that hands the collected bytes to the decoder as they are
finalize_NoPrepend(rawBytes, junk) ==
    IF rawBytes = <<>> THEN [err |-> "NoData", packet |-> <<>>, resp |-> NoPacket]
    ELSE LET length == IF Len(rawBytes) >= 2 THEN rawBytes[2] ELSE junk
         IN  IF Len(rawBytes) # length + 3
             THEN [err |-> "RxSizeMismatch", packet |-> rawBytes, resp |-> NoPacket]
             ELSE LET r == parse(rawBytes)
                  IN  [err |-> r.err, packet |-> rawBytes, resp |-> r]

\* readPacket after the wait loop.  junk is the byte the out-of-bounds read
\* packet[1] yields when the packet has a single byte.
finalize(rawBytes, junk) ==
    IF rawBytes = <<>> THEN [err |-> "NoData", packet |-> <<>>, resp |-> NoPacket]
    ELSE LET packet == IF rawBytes[1] = AUX_HDR THEN rawBytes
                       ELSE <<AUX_HDR>> \o rawBytes
             length == IF Len(packet) >= 2 THEN packet[2] ELSE junk
         IN  IF Len(packet) # expectedSize(length)
             THEN [err |-> "RxSizeMismatch", packet |-> packet, resp |-> NoPacket]
             ELSE LET r == parse(packet)
                  IN  [err |-> r.err, packet |-> packet, resp |-> r]

\* runDiagnostics: Buffer testPacket = {0x3B, 0x03, 0x20, 0x12, 0xFE, 0xCD}
testPacket == <<59, 3, 32, 18, 254, 205>>

\* a sendCommand that copies the payload of every decoded response
replyAfter_Leak(kind, reply, responsePacket) ==
    IF responsePacket.ok THEN responsePacket.data ELSE reply

\* sendCommand: reply = responsePacket.data is reached only past the three
\* continue statements
replyAfter(kind, reply, responsePacket) ==
    IF kind = "Accepted" THEN responsePacket.data ELSE reply

\* values an out-of-bounds byte read may produce
JunkBytes == {0, 3, 255}

\* ---------------------------------------------------------------- communicator
\* loop tests that are off by one, either way
MoreAttempts_OneMore(rc) == rc <= RETRY_COUNT

MoreAttempts_OneLess(rc) == rc < RETRY_COUNT - 1

\* sendCommand: while (retryCount++ < RETRY_COUNT)
MoreAttempts(rc) == rc < RETRY_COUNT

\* a check that accepts every frame addressed to the application
ResponseAccepted_Any(resp, c, d, local) == resp.destination = APP

\* sendCommand: the response is accepted unless command, destination or
\* source differ from cmd, Target::APP, dest; this->source (local) is not
\* looked at
ResponseAccepted(resp, c, d, local) ==
    ~ (resp.command # c \/ resp.destination # APP \/ resp.source # d)

\* sendCommand: `continue` after a failed send, a failed read, an invalid
\* response; `return true` after an accepted one
AfterSendFailed == "loop"

\* a failed read that ends the call instead of the attempt
AfterReadFailed_Abort == "done"

AfterReadFailed == "loop"

\* an invalid response after which only the read is repeated
AfterInvalidResponse_Reread == "read"

AfterInvalidResponse == "loop"

\* an accepted response after which the loop goes on
AfterAccepted_Continue == "loop"

AfterAccepted == "done"

\* ---------------------------------------------------------------- device
Devices == {FOCUSER, AZM}
Locals == {APP, HC}
Commands == {GET_VER, MC_GET_POSITION}

\* the calls the caller makes: <<dest, cmd, data>>
Requests == {<<FOCUSER, GET_VER, <<>>>>, <<AZM, MC_GET_POSITION, <<7>>>>}

\* the payload the device puts into a frame with these fields
ReplyData(s, d, c) ==
    IF c = GET_VER THEN (IF d = APP THEN <<7, s>> ELSE <<>>) ELSE <<s, d, c>>

Frames == {fillBuffer(Packet(s, d, c, ReplyData(s, d, c))) :
              s \in Devices, d \in Locals, c \in Commands}

\* a frame as the line may deliver it: without its first byte, with a wrong
\* checksum, cut short, with a trailing byte
Damaged(f) ==
    {Tail(f), [f EXCEPT ![Len(f)] = (f[Len(f)] + 1) % 256],
     SubSeq(f, 1, 3), f \o <<0>>}

Scripts ==
    Frames
    \cup Damaged(fillBuffer(Packet(FOCUSER, APP, GET_VER, <<7, FOCUSER>>)))
    \cup {<<AUX_HDR>>, <<0, 0>>}

\* frames that answer the request <<FOCUSER, GET_VER>>
Answers ==
    {fillBuffer(Packet(FOCUSER, d, GET_VER, ReplyData(FOCUSER, d, GET_VER))) :
        d \in Locals}

\* first responses that are followed by an answer: an answer, a frame with
\* another command, a frame from another device, a frame with a wrong
\* checksum, a lone header byte
Retried ==
    Answers
    \cup {fillBuffer(Packet(FOCUSER, APP, MC_GET_POSITION,
                            ReplyData(FOCUSER, APP, MC_GET_POSITION))),
          fillBuffer(Packet(AZM, APP, GET_VER, ReplyData(AZM, APP, GET_VER))),
          [fillBuffer(Packet(FOCUSER, APP, GET_VER, <<7, FOCUSER>>))
              EXCEPT ![8] = (@ + 1) % 256],
          <<AUX_HDR>>}

\* what the device sends in one behaviour: nothing, one script, or a first
\* response followed by an answer
Scenarios ==
    {<<>>} \cup {<<s>> : s \in Scripts}
    \cup {<<s, f>> : s \in Retried, f \in Answers}

VARIABLES
    source,      \* Communicator::source, the local address
    pc,          \* where the caller is: idle, loop, read, done
    dest, cmd, data,   \* arguments of the sendCommand call
    reply,       \* the caller's reply buffer
    result,      \* none, ok, CommandFailed
    retryCount,  \* sendCommand's retryCount
    input,       \* unread bytes in the serial input buffer
    line,        \* bytes the device has sent that have not arrived yet
    rawData,     \* readPacket's rawData
    sinceLast,   \* millis() - startTime in readPacket
    elapsed,     \* ms spent in the current readPacket call
    writes,      \* serial.write calls of this sendCommand call
    reads,       \* readPacket calls of this sendCommand call that returned
    readFails,   \* ... and returned false
    todo,        \* scripts the device has still to send
    watch,       \* TRUE when the behaviour keeps the watch: the stopwatch
                 \* elapsed runs and emission times are recorded
    last,        \* what the latest attempt did (history)
    pkt,         \* codec: the Packet under encode
    buf,         \* codec: the buffer fillBuffer filled, parse reads
    dec,         \* codec: what parse made of buf
    cstep,       \* codec: off, new, encoded, tampered, decoded
    at,          \* main.cpp: where loop() is: off, handle, processCommands, status
    running,     \* main.cpp: per task, the handler it is inside and the
                 \* Communicator call that handler is waiting for
    focuserConnected,  \* main.cpp global
    isMoving,          \* main.cpp global
    wifiInitialized,   \* main.cpp global
    reported,    \* what the focuser function that returned last reported
    millis,      \* millis(): ms since boot
    lastStatusCheck,   \* main.cpp global
    currentTime, \* loop()'s local currentTime
    currentSpeed,      \* main.cpp global
    currentPosition,   \* main.cpp global
    targetPosition,    \* main.cpp global
    commandBuffer,     \* main.cpp global, as character codes
    serialIn,    \* characters typed on the console, not yet read
    sent,        \* the request frame written last to the AUX transport
    wrote,       \* the handler that ran last wrote a frame
    ssid,        \* WiFiManager::_ssid
    apMode,      \* WiFiManager::_apMode
    stationMode, \* WiFiManager::_stationMode
    wifiConnected,     \* WiFiManager::_wifiConnected
    wlStatus,    \* the driver: WiFi.status() == WL_CONNECTED
    inRange,     \* the networks that can be joined now
    failure      \* which join or link failed last (history)

commVars == <<source, pc, dest, cmd, data, reply, result, retryCount, input,
              line, rawData, sinceLast, elapsed, writes, reads, readFails, todo,
              watch, last>>

codecVars == <<pkt, buf, dec, cstep>>

clockVars == <<millis, lastStatusCheck, currentTime>>

uiVars == <<currentSpeed, currentPosition, targetPosition, commandBuffer,
            serialIn, sent, wrote>>

wifiVars == <<ssid, apMode, stationMode, wifiConnected, wlStatus, inRange,
              failure>>

appVars == <<at, running, focuserConnected, isMoving, wifiInitialized,
             reported, clockVars, uiVars, wifiVars>>

\* what the Communicator's operations leave alone
others == <<codecVars, appVars>>

vars == <<commVars, codecVars, appVars>>

\* the request writes so far, for the record of when a frame was sent
Epoch == IF watch THEN writes ELSE 0

NoAttempt ==
    [kind |-> "None", packet |-> <<>>, resp |-> NoPacket, frame |-> <<>>,
     written |-> 0, flushed |-> 0]

\* the state after construction, before the device has sent anything
Constructed ==
    /\ source \in Locals
    /\ pc = "idle"
    /\ dest = FOCUSER /\ cmd = GET_VER /\ data = <<>>
    /\ reply = <<9>>
    /\ result = "none"
    /\ retryCount = 0
    /\ input = <<>> /\ line = <<>>
    /\ rawData = <<>>
    /\ sinceLast = 0 /\ elapsed = 0
    /\ writes = 0 /\ reads = 0 /\ readFails = 0
    /\ last = NoAttempt

\* no Packet is being encoded or parsed
CodecOff ==
    /\ cstep = "off"
    /\ pkt = Packet(APP, FOCUSER, GET_VER, <<>>)
    /\ buf = <<>>
    /\ dec = NoPacket

\* the tasks of the firmware: loopTask runs setup() and loop(), the
\* AsyncTCP task runs the AsyncWebServer request handlers
Tasks == {"loop", "async"}

Idle == [origin |-> "none", name |-> "none", op |-> "none", cmd |-> 0]

\* no focuser function has returned yet
NoReport ==
    [origin |-> "none", name |-> "none", ok |-> FALSE, reply |-> <<>>]

\* no frame written yet
NoFrame == [cmd |-> 0, data |-> <<>>]

\* the globals of main.cpp as initialized, nothing typed
UiOff ==
    /\ currentSpeed = 5
    /\ currentPosition = 0
    /\ targetPosition = 0
    /\ commandBuffer = <<>>
    /\ serialIn = <<>>
    /\ sent = NoFrame
    /\ wrote = FALSE

\* the WiFi manager after begin() without a saved network: the access point
\* is up when begin succeeded, and otherwise nothing is
WifiIdle ==
    /\ ssid = ""
    /\ apMode = wifiInitialized
    /\ stationMode = FALSE
    /\ wifiConnected = wifiInitialized
    /\ wlStatus = FALSE
    /\ inRange = {}
    /\ failure = "none"

\* the application is not running
AppOff ==
    /\ at = "off"
    /\ running = [t \in Tasks |-> Idle]
    /\ focuserConnected = FALSE
    /\ isMoving = FALSE
    /\ wifiInitialized = FALSE
    /\ reported = NoReport
    /\ millis = 0 /\ lastStatusCheck = 0 /\ currentTime = 0
    /\ UiOff
    /\ WifiIdle

Init ==
    /\ Constructed
    /\ todo \in Scenarios
    /\ watch = FALSE
    /\ CodecOff
    /\ AppOff

InitStream ==
    /\ Constructed
    /\ todo = <<>>
    /\ watch = TRUE
    /\ CodecOff
    /\ AppOff

\* the caller invokes sendCommand(serial, d, c, p, reply)
Call(d, c, p) ==
    /\ pc = "idle"
    /\ pc' = "loop"
    /\ dest' = d /\ cmd' = c /\ data' = p
    /\ retryCount' = 0
    /\ result' = "none"
    /\ writes' = 0 /\ reads' = 0 /\ readFails' = 0
    /\ input' = Stamp(Bytes(input), 0)
    /\ last' = NoAttempt
    /\ UNCHANGED others
    /\ UNCHANGED <<source, reply, line, rawData, sinceLast, elapsed, todo, watch>>

\* loop test passes; sendPacket flushes the input and writes the frame.
\* flushSerial and serial.write follow each other without a delay, so they
\* are one step; bytes arrive while the caller waits (idle, readPacket).
SendPacket(bytesWritten) ==
    LET txBuffer == fillBuffer(Packet(source, dest, cmd, data))
    IN  /\ pc = "loop"
        /\ MoreAttempts(retryCount)
        /\ bytesWritten \in WriteCounts(txBuffer)
        /\ retryCount' = retryCount + 1
        /\ input' = flushSerial(input)
        /\ writes' = writes + 1
        /\ pc' = IF WriteComplete(bytesWritten, txBuffer) THEN "read"
                 ELSE AfterSendFailed
        /\ last' = [NoAttempt EXCEPT
                      !.kind = IF WriteComplete(bytesWritten, txBuffer)
                               THEN "Reading" ELSE "ShortWrite",
                      !.frame = txBuffer, !.written = bytesWritten,
                      !.flushed = Len(input) - Len(flushSerial(input))]
        /\ rawData' = <<>>
        /\ sinceLast' = 0 /\ elapsed' = 0
        /\ UNCHANGED others
        /\ UNCHANGED <<source, dest, cmd, data, reply, result, line, reads,
                       readFails, todo, watch>>

SendPacketOk ==
    \E n \in WriteCounts(fillBuffer(Packet(source, dest, cmd, data))) :
        /\ WriteComplete(n, fillBuffer(Packet(source, dest, cmd, data)))
        /\ SendPacket(n)

SendPacketShort ==
    \E n \in WriteCounts(fillBuffer(Packet(source, dest, cmd, data))) :
        /\ ~ WriteComplete(n, fillBuffer(Packet(source, dest, cmd, data)))
        /\ SendPacket(n)

\* loop test fails: "Command failed after %d attempts", return false
GiveUp ==
    /\ pc = "loop"
    /\ ~ MoreAttempts(retryCount)
    /\ retryCount' = retryCount + 1
    /\ pc' = "done"
    /\ result' = "CommandFailed"
    /\ UNCHANGED others
    /\ UNCHANGED <<source, dest, cmd, data, reply, input, line, rawData,
                   sinceLast, elapsed, writes, reads, readFails, todo, watch, last>>

\* readPacket loop body with a byte available: push_back, restart the timer
ReadByte ==
    /\ pc = "read"
    /\ StillWaiting(sinceLast)
    /\ input # <<>>
    /\ rawData' = Append(rawData, Head(input))
    /\ input' = Tail(input)
    /\ sinceLast' = 0
    /\ UNCHANGED others
    /\ UNCHANGED <<source, pc, dest, cmd, data, reply, result, retryCount,
                   line, elapsed, writes, reads, readFails, todo, watch, last>>

\* readPacket loop polling an empty input buffer for TickMs milliseconds
Tick ==
    /\ pc = "read"
    /\ StillWaiting(sinceLast)
    /\ input = <<>>
    /\ sinceLast' = sinceLast + TickMs
    /\ elapsed' = IF watch THEN elapsed + TickMs ELSE elapsed
    /\ UNCHANGED others
    /\ UNCHANGED <<source, pc, dest, cmd, data, reply, result, retryCount,
                   input, line, rawData, writes, reads, readFails, todo, watch, last>>

\* readPacket leaves the loop, builds and parses the packet; sendCommand
\* verifies the response and returns or continues
FinishRead ==
    /\ pc = "read"
    /\ ~ StillWaiting(sinceLast)
    /\ \E junk \in JunkBytes :
         LET f == finalize(Bytes(rawData), junk)
             kind == IF f.err # "None" THEN f.err
                     ELSE IF ResponseAccepted(f.resp, cmd, dest, source)
                          THEN "Accepted" ELSE "Invalid"
         IN  /\ last' = [last EXCEPT !.kind = kind, !.resp = f.resp,
                           !.packet = IF Bytes(rawData) = f.packet THEN rawData
                                      ELSE <<<<AUX_HDR, writes, Epoch>>>> \o rawData]
             /\ reply' = replyAfter(kind, reply, f.resp)
             /\ IF kind = "Accepted"
                THEN /\ result' = "ok"
                     /\ pc' = AfterAccepted
                ELSE /\ UNCHANGED result
                     /\ pc' = IF kind = "Invalid" THEN AfterInvalidResponse
                              ELSE AfterReadFailed
             /\ readFails' = IF f.err # "None" THEN readFails + 1 ELSE readFails
    /\ reads' = reads + 1
    /\ UNCHANGED others
    /\ UNCHANGED <<source, dest, cmd, data, retryCount, input, line, rawData,
                   sinceLast, elapsed, writes, todo, watch>>

\* the device starts sending its next script (a reply, a late reply, noise)
DeviceEmit ==
    /\ pc \in {"idle", "read"}
    /\ line = <<>>
    /\ todo # <<>>
    /\ line' = Sent(Head(todo), Epoch)
    /\ todo' = Tail(todo)
    /\ UNCHANGED others
    /\ UNCHANGED <<source, pc, dest, cmd, data, reply, result, retryCount,
                   input, rawData, sinceLast, elapsed, writes, reads, readFails, watch,
                   last>>

\* the next byte on the line reaches the serial input buffer
ByteArrive ==
    /\ pc \in {"idle", "read"}
    /\ line # <<>>
    /\ Len(input) < MaxRx
    /\ input' = Append(input, <<Head(line)[1], writes, Head(line)[2]>>)
    /\ line' = Tail(line)
    /\ UNCHANGED others
    /\ UNCHANGED <<source, pc, dest, cmd, data, reply, result, retryCount,
                   rawData, sinceLast, elapsed, writes, reads, readFails, todo, watch, last>>

Next ==
    \/ \E r \in Requests : Call(r[1], r[2], r[3])
    \/ SendPacketOk
    \/ SendPacketShort
    \/ GiveUp
    \/ ReadByte
    \/ Tick
    \/ FinishRead
    \/ DeviceEmit
    \/ ByteArrive

Spec == Init /\ [][Next]_vars

\* the device sends one answer, at a time of its own choosing
LateScenarios == {<<f>> : f \in Answers}

InitLate ==
    /\ Constructed
    /\ todo \in LateScenarios
    /\ watch = TRUE
    /\ CodecOff
    /\ AppOff

\* the same program with the time of every emission on record
SpecLate == InitLate /\ [][Next]_vars

\* a device that keeps sending while the receiver waits: the next byte comes
\* one tick after the previous one, before the quiet interval is over
StreamByte ==
    /\ pc = "read"
    /\ StillWaiting(sinceLast)
    /\ sinceLast > 0
    /\ input = <<>>
    /\ Len(rawData) < MaxStream
    /\ input' = <<<<0, writes, Epoch>>>>
    /\ UNCHANGED others
    /\ UNCHANGED <<source, pc, dest, cmd, data, reply, result, retryCount,
                   line, rawData, sinceLast, elapsed, writes, reads, readFails,
                   todo, watch, last>>

NextStream ==
    \/ \E r \in Requests : Call(r[1], r[2], r[3])
    \/ SendPacketOk
    \/ SendPacketShort
    \/ GiveUp
    \/ ReadByte
    \/ Tick
    \/ FinishRead
    \/ StreamByte

\* the same program against the streaming device, with the stopwatch running
SpecStream == InitStream /\ [][NextStream]_vars

\* commandBlind that tries again after a failed write
AfterBlindWrite_Retry == "idle"

\* Communicator::commandBlind: return sendPacket(...), whatever it reports
AfterBlindWrite == "done"

\* commandBlind(serial, d, c, p): sendPacket flushes the input and writes the
\* frame once; its boolean is the result
CommandBlind(d, c, p, bytesWritten) ==
    LET txBuffer == fillBuffer(Packet(source, d, c, p))
    IN  /\ pc = "idle"
        /\ bytesWritten \in WriteCounts(txBuffer)
        /\ dest' = d /\ cmd' = c /\ data' = p
        /\ input' = flushSerial(input)
        /\ writes' = writes + 1
        /\ result' = IF WriteComplete(bytesWritten, txBuffer) THEN "Written"
                     ELSE "WriteError"
        /\ pc' = IF WriteComplete(bytesWritten, txBuffer) THEN "done"
                 ELSE AfterBlindWrite
        /\ last' = [NoAttempt EXCEPT
                      !.kind = "Blind",
                      !.frame = txBuffer, !.written = bytesWritten,
                      !.flushed = Len(input) - Len(flushSerial(input))]
        /\ UNCHANGED others
        /\ UNCHANGED <<source, reply, retryCount, line, rawData, sinceLast,
                       elapsed, reads, readFails, todo, watch>>

CommandBlindOk ==
    \E r \in Requests :
        \E n \in WriteCounts(fillBuffer(Packet(source, r[1], r[2], r[3]))) :
            /\ WriteComplete(n, fillBuffer(Packet(source, r[1], r[2], r[3])))
            /\ CommandBlind(r[1], r[2], r[3], n)

CommandBlindShort ==
    \E r \in Requests :
        \E n \in WriteCounts(fillBuffer(Packet(source, r[1], r[2], r[3]))) :
            /\ ~ WriteComplete(n, fillBuffer(Packet(source, r[1], r[2], r[3])))
            /\ CommandBlind(r[1], r[2], r[3], n)

NextBlind ==
    \/ CommandBlindOk
    \/ CommandBlindShort
    \/ DeviceEmit
    \/ ByteArrive

\* one commandBlind call against the same device
SpecBlind == Init /\ [][NextBlind]_vars

\* ------------------------------------------------------------ codec runs
\* payload sizes tried: empty, short, the largest whose length fits a byte,
\* and larger ones
Lengths == {0, 1, 2, 3, 56, 252, 253, 256}

\* a payload of n bytes
Payload(n, seed) == [i \in 1..n |-> (seed + 37 * i) % 256]

Payloads == {Payload(n, seed) : n \in Lengths, seed \in {22, 200}}

Targets == Devices \cup Locals

\* byte v with bit k inverted
FlipBit(v, k) == IF (v \div (2 ^ k)) % 2 = 1 THEN v - 2 ^ k ELSE v + 2 ^ k

\* positions of a buffer that get damaged: its head and its tail
TamperAt(b) == {i \in DOMAIN b : i <= 7 \/ i >= Len(b) - 1}

InitCodec ==
    /\ Constructed
    /\ source = APP
    /\ todo = <<>>
    /\ watch = FALSE
    /\ cstep = "new"
    /\ pkt \in {Packet(s, d, c, p) :
                   s \in Targets, d \in Targets, c \in Commands, p \in Payloads}
    /\ buf = <<>>
    /\ dec = NoPacket
    /\ AppOff

\* packet.fillBuffer(buf)
Encode ==
    /\ cstep = "new"
    /\ buf' = fillBuffer(pkt)
    /\ cstep' = "encoded"
    /\ UNCHANGED <<commVars, appVars, pkt, dec>>

\* one bit of the buffer changes on the way
Tamper ==
    /\ cstep = "encoded"
    /\ \E i \in TamperAt(buf), k \in 0..7 :
         buf' = [buf EXCEPT ![i] = FlipBit(@, k)]
    /\ cstep' = "tampered"
    /\ UNCHANGED <<commVars, appVars, pkt, dec>>

\* response.parse(buf)
Decode ==
    /\ cstep \in {"encoded", "tampered"}
    /\ dec' = parse(buf)
    /\ cstep' = "decoded"
    /\ UNCHANGED <<commVars, appVars, pkt, buf>>

\* a frame that parse accepts reaches readPacket without its first byte:
\* readPacket after its wait loop has collected the rest
ReceiveHeadless ==
    /\ cstep = "decoded"
    /\ dec.ok
    /\ \E junk \in JunkBytes :
         LET f == finalize(Tail(buf), junk)
         IN  last' = [last EXCEPT !.kind = f.err, !.resp = f.resp,
                                  !.packet = Stamp(f.packet, 0)]
    /\ cstep' = "headless"
    /\ UNCHANGED <<source, pc, dest, cmd, data, reply, result, retryCount,
                   input, line, rawData, sinceLast, elapsed, writes, reads,
                   readFails, todo, watch>>
    /\ UNCHANGED <<appVars, pkt, buf, dec>>

NextCodec ==
    \/ Encode
    \/ Tamper
    \/ Decode
    \/ ReceiveHeadless

\* Packet objects encoded with fillBuffer and read back with parse
SpecCodec == InitCodec /\ [][NextCodec]_vars

\* the longest raw buffer handed to parse and to readPacket
MaxRaw == 7

\* byte values of the raw buffers: two length bytes, the sentinel, and the
\* sentinel with its top bit set
RawBytes == {3, 4, AUX_HDR, AUX_HDR + 128}

RECURSIVE RawBuffers(_)
RawBuffers(n) ==
    IF n = 0 THEN {<<>>}
    ELSE LET shorter == RawBuffers(n - 1)
         IN  shorter \cup {Append(b, v) : b \in {c \in shorter : Len(c) = n - 1},
                                          v \in RawBytes}

InitDecode ==
    /\ Constructed
    /\ source = APP
    /\ todo = <<>>
    /\ watch = FALSE
    /\ cstep = "raw"
    /\ pkt = Packet(APP, FOCUSER, GET_VER, <<>>)
    /\ buf \in RawBuffers(MaxRaw)
    /\ dec = NoPacket
    /\ AppOff

\* reply.parse(buf) on a buffer of any content
DecodeRaw ==
    /\ cstep = "raw"
    /\ dec' = parse(buf)
    /\ cstep' = "parsed"
    /\ UNCHANGED <<commVars, appVars, pkt, buf>>

\* readPacket after its wait loop has collected the same bytes
ReceiveRaw ==
    /\ cstep = "parsed"
    /\ \E junk \in JunkBytes :
         LET f == finalize(buf, junk)
         IN  last' = [last EXCEPT !.kind = f.err, !.resp = f.resp,
                                  !.packet = Stamp(f.packet, 0)]
    /\ cstep' = "received"
    /\ UNCHANGED <<source, pc, dest, cmd, data, reply, result, retryCount,
                   input, line, rawData, sinceLast, elapsed, writes, reads,
                   readFails, todo, watch>>
    /\ UNCHANGED <<appVars, pkt, buf, dec>>

NextDecode ==
    \/ DecodeRaw
    \/ ReceiveRaw

\* parse and readPacket's checks applied to raw buffers of every content
SpecDecode == InitDecode /\ [][NextDecode]_vars

\* ------------------------------------------------------------ main.cpp
\* a web-socket handler that runs on the network task
WebSocketTask_Async == "async"

\* WiFiManager::handle calls _webSocketServer->loop(), which calls the
\* onEvent lambda and through it handleWebFocuserCommand: on loopTask
WebSocketTask == "loop"

\* the Communicator call a focuser function makes
FocuserCalls ==
    [connect     |-> [op |-> "sendCommand",  cmd |-> GET_VER],
     getPosition |-> [op |-> "sendCommand",  cmd |-> MC_GET_POSITION],
     moveIn      |-> [op |-> "sendCommand",  cmd |-> MC_MOVE_POS],
     moveOut     |-> [op |-> "sendCommand",  cmd |-> MC_MOVE_NEG],
     goto        |-> [op |-> "commandBlind", cmd |-> MC_GOTO_FAST],
     stop        |-> [op |-> "commandBlind", cmd |-> MC_MOVE_POS],
     slewDone    |-> [op |-> "sendCommand",  cmd |-> MC_SLEW_DONE]]

\* focuser:connect, focuser:getPosition, focuser:move in/out, focuser:step
\* and focuser:goto (both gotoPosition), focuser:stop
WebCommands == {"connect", "getPosition", "moveIn", "moveOut", "goto", "stop"}

\* 'c', 'p', '+', '-', 'g<n>', 's' or '0'
ConsoleCommands == {"connect", "getPosition", "moveIn", "moveOut", "goto", "stop"}

Handler(origin, name) ==
    [origin |-> origin, name |-> name,
     op |-> FocuserCalls[name].op, cmd |-> FocuserCalls[name].cmd]

\* the tasks with a sendCommand or commandBlind call that has not returned
InFlight == {t \in Tasks : running[t].op # "none"}

\* a rate limit that lets every loop iteration poll
PollDue_Always(now, lastCheck) == TRUE

\* loop(): currentTime - lastStatusCheck >= STATUS_CHECK_INTERVAL
PollDue(now, lastCheck) == now - lastCheck >= STATUS_CHECK_INTERVAL

\* a status check that takes every non-empty reply for "done"
SlewDone_AnyReply(ok, status) == ok /\ status # <<>>

\* checkFocuserStatus: the call succeeded, the reply is not empty and its
\* first byte is 0xFF
SlewDone(ok, status) == ok /\ status # <<>> /\ status[1] = 255

\* replies to MC_SLEW_DONE: none, still moving, done
SlewReplies == {<<>>, <<0>>, <<255>>}

\* ms that pass at a time
Delays == {200, 300}

\* isMoving after a focuser function returned ok
MovingAfter(name, ok) ==
    IF ok /\ name \in {"moveIn", "moveOut", "goto"} THEN TRUE
    ELSE IF ok /\ name = "stop" THEN FALSE
    ELSE isMoving

\* setup() has run: WiFi is up or not, the focuser answered or not
InitApp ==
    /\ Constructed
    /\ source = APP
    /\ todo = <<>>
    /\ watch = FALSE
    /\ CodecOff
    /\ at = "handle"
    /\ running = [t \in Tasks |-> Idle]
    /\ focuserConnected \in BOOLEAN
    /\ isMoving = FALSE
    /\ wifiInitialized \in BOOLEAN
    /\ reported = [origin |-> "setup", name |-> "connect",
                   ok |-> focuserConnected, reply |-> <<>>]
    /\ millis = 0 /\ lastStatusCheck = 0 /\ currentTime = 0
    /\ UiOff
    /\ WifiIdle

\* a web-socket text message with a focuser command is dispatched:
\* handleWebFocuserCommand enters the focuser function and its call starts
WebFocuserCommand ==
    /\ wifiInitialized
    /\ running[WebSocketTask] = Idle
    /\ WebSocketTask = "loop" => at = "handle"
    /\ \E name \in WebCommands :
         running' = [running EXCEPT ![WebSocketTask] = Handler("web", name)]
    /\ UNCHANGED <<commVars, codecVars, at, focuserConnected, isMoving,
                   wifiInitialized, reported, clockVars, uiVars,
                   wifiVars>>

\* the call returns and handleWebFocuserCommand finishes
WebFocuserReturn ==
    /\ running[WebSocketTask].origin = "web"
    /\ \E ok \in BOOLEAN :
         /\ isMoving' = MovingAfter(running[WebSocketTask].name, ok)
         /\ reported' = [origin |-> "web",
                         name |-> running[WebSocketTask].name, ok |-> ok,
                         reply |-> <<>>]
    /\ running' = [running EXCEPT ![WebSocketTask] = Idle]
    /\ UNCHANGED <<commVars, codecVars, at, focuserConnected, wifiInitialized,
                   clockVars, uiVars,
                   wifiVars>>

\* loop(): wifiManager.handle() is over (or skipped), processCommands() next
HandleDone ==
    /\ at = "handle"
    /\ running["loop"] = Idle
    /\ at' = "processCommands"
    /\ UNCHANGED <<commVars, codecVars, running, focuserConnected, isMoving,
                   wifiInitialized, reported, clockVars, uiVars,
                   wifiVars>>

\* processCommands dispatches a console command that reaches a focuser
\* function: 'c' always, the others only while focuserConnected
ConsoleCommand ==
    /\ at = "processCommands"
    /\ running["loop"] = Idle
    /\ \E name \in ConsoleCommands :
         /\ name = "connect" \/ focuserConnected
         /\ running' = [running EXCEPT !["loop"] = Handler("console", name)]
    /\ UNCHANGED <<commVars, codecVars, at, focuserConnected, isMoving,
                   wifiInitialized, reported, clockVars, uiVars,
                   wifiVars>>

\* the call returns and handleCommand / handleGotoCommand finishes
ConsoleReturn ==
    /\ running["loop"].origin = "console"
    /\ \E ok \in BOOLEAN :
         /\ isMoving' = MovingAfter(running["loop"].name, ok)
         /\ focuserConnected' = IF running["loop"].name = "connect" THEN ok
                                ELSE focuserConnected
         /\ reported' = [origin |-> "console",
                         name |-> running["loop"].name, ok |-> ok,
                         reply |-> <<>>]
    /\ running' = [running EXCEPT !["loop"] = Idle]
    /\ UNCHANGED <<commVars, codecVars, at, wifiInitialized, clockVars, uiVars,
                   wifiVars>>

\* loop(): processCommands() has drained the console
ProcessDone ==
    /\ at = "processCommands"
    /\ running["loop"] = Idle
    /\ at' = "status"
    /\ UNCHANGED <<commVars, codecVars, running, focuserConnected, isMoving,
                   wifiInitialized, reported, clockVars, uiVars,
                   wifiVars>>

\* loop(): checkFocuserStatus() is due: currentTime is taken and the call
\* sends MC_SLEW_DONE
StatusPoll ==
    /\ at = "status"
    /\ running["loop"] = Idle
    /\ focuserConnected /\ isMoving
    /\ PollDue(millis, lastStatusCheck)
    /\ currentTime' = millis
    /\ running' = [running EXCEPT !["loop"] = Handler("status", "slewDone")]
    /\ UNCHANGED <<commVars, codecVars, at, focuserConnected, isMoving,
                   wifiInitialized, reported, millis, lastStatusCheck,
                   uiVars,
                   wifiVars>>

\* MC_SLEW_DONE returns: on a reply that begins with 0xFF isMoving is
\* cleared and getFocuserPosition starts its call, otherwise
\* checkFocuserStatus returns and loop() stores currentTime
StatusReturn ==
    /\ running["loop"] = Handler("status", "slewDone")
    /\ \E ok \in BOOLEAN, status \in SlewReplies :
         /\ ok \/ status = <<>>
         /\ isMoving' = IF SlewDone(ok, status) THEN FALSE ELSE isMoving
         /\ running' = [running EXCEPT !["loop"] =
                           IF SlewDone(ok, status)
                           THEN Handler("status", "getPosition")
                           ELSE Idle]
         /\ lastStatusCheck' = IF SlewDone(ok, status) THEN lastStatusCheck
                               ELSE currentTime
         /\ reported' = [origin |-> "status", name |-> "slewDone", ok |-> ok,
                         reply |-> status]
    /\ UNCHANGED <<commVars, codecVars, at, focuserConnected, wifiInitialized,
                   millis, currentTime, uiVars,
                   wifiVars>>

\* getFocuserPosition inside checkFocuserStatus returns, checkFocuserStatus
\* returns and loop() stores currentTime
PositionReturn ==
    /\ running["loop"] = Handler("status", "getPosition")
    /\ running' = [running EXCEPT !["loop"] = Idle]
    /\ lastStatusCheck' = currentTime
    /\ UNCHANGED <<commVars, codecVars, at, focuserConnected, isMoving,
                   wifiInitialized, reported, millis, currentTime,
                   uiVars,
                   wifiVars>>

\* loop(): delay(10), next iteration
StatusDone ==
    /\ at = "status"
    /\ running["loop"] = Idle
    /\ at' = "handle"
    /\ UNCHANGED <<commVars, codecVars, running, focuserConnected, isMoving,
                   wifiInitialized, reported, clockVars, uiVars,
                   wifiVars>>

\* GET /api/status: _handleStatus runs on the network task, without a
\* Communicator call
HttpRequest ==
    /\ wifiInitialized
    /\ running["async"] = Idle
    /\ running' = [running EXCEPT !["async"] =
                      [origin |-> "http", name |-> "status", op |-> "none",
                       cmd |-> 0]]
    /\ UNCHANGED <<commVars, codecVars, at, focuserConnected, isMoving,
                   wifiInitialized, reported, clockVars, uiVars,
                   wifiVars>>

HttpDone ==
    /\ running["async"].origin = "http"
    /\ running' = [running EXCEPT !["async"] = Idle]
    /\ UNCHANGED <<commVars, codecVars, at, focuserConnected, isMoving,
                   wifiInitialized, reported, clockVars, uiVars,
                   wifiVars>>

\* time passes: in delay(10), in a call that waits for its reply
Elapse ==
    /\ at # "off"
    /\ \E d \in Delays :
         /\ millis + d <= MaxMillis
         /\ millis' = millis + d
    /\ UNCHANGED <<commVars, codecVars, at, running, focuserConnected,
                   isMoving, wifiInitialized, reported, lastStatusCheck,
                   currentTime, uiVars,
                   wifiVars>>

NextApp ==
    \/ WebFocuserCommand
    \/ WebFocuserReturn
    \/ HandleDone
    \/ ConsoleCommand
    \/ ConsoleReturn
    \/ ProcessDone
    \/ StatusPoll
    \/ StatusReturn
    \/ PositionReturn
    \/ StatusDone
    \/ HttpRequest
    \/ HttpDone
    \/ Elapse

\* the firmware's tasks and the focuser calls they make
SpecApp == InitApp /\ [][NextApp]_vars

\* ------------------------------------------------- console and web handlers
\* main.cpp: #define MAX_COMMAND_LEN 32
MAX_COMMAND_LEN == 32

\* character codes
LF == 10
CR == 13

\* the characters of a command line, by code
Ch ==
    [plus |-> 43, minus |-> 45, zero |-> 48, one |-> 49, five |-> 53,
     nine |-> 57, what |-> 63, c |-> 99, d |-> 100, g |-> 103, i |-> 105,
     p |-> 112, s |-> 115, t |-> 116, w |-> 119, x |-> 120, space |-> 32,
     tab |-> 9, del |-> 127]

\* processCommands: c >= 32 && c <= 126
Printable(c) == c >= 32 /\ c <= 126

\* isdigit
isdigit(c) == c >= 48 /\ c <= 57

\* isspace
isspace(c) == c = 32 \/ (c >= 9 /\ c <= 13)

\* String::trim: leading and trailing white space removed
RECURSIVE trim(_)
trim(value) ==
    IF value = <<>> THEN <<>>
    ELSE IF isspace(Head(value)) THEN trim(Tail(value))
    ELSE IF isspace(value[Len(value)])
         THEN trim(SubSeq(value, 1, Len(value) - 1))
    ELSE value

\* String::toInt on a string of digits: atol; the numbers typed stay below
\* LONG_MAX
RECURSIVE toIntFrom(_, _)
toIntFrom(digits, acc) ==
    IF digits = <<>> THEN acc
    ELSE toIntFrom(Tail(digits), 10 * acc + (Head(digits) - 48))

toInt(digits) == toIntFrom(digits, 0)

\* parsePosition(value)
parsePosition(value) ==
    LET trimmed == trim(value)
    IN  IF trimmed = <<>> THEN 0
        ELSE IF \E i \in DOMAIN trimmed : ~ isdigit(trimmed[i]) THEN 0
        ELSE toInt(trimmed)

\* gotoPosition: (position >> 16) & 0xFF, (position >> 8) & 0xFF,
\* position & 0xFF
PositionBytes(position) ==
    <<(position \div 65536) % 256, (position \div 256) % 256, position % 256>>

\* getFocuserPosition: (reply[0] << 16) + (reply[1] << 8) + reply[2]
PositionFrom(bytes) == bytes[1] * 65536 + bytes[2] * 256 + bytes[3]

\* setSpeed(speed): speed < 1 || speed > 9 is refused
setSpeed(speed) == speed >= 1 /\ speed <= 9

Frame(c, d) == [cmd |-> c, data |-> d]

\* the globals a handler reads and writes, as it finds them
Globals ==
    [sent |-> sent, wrote |-> FALSE,
     currentSpeed |-> currentSpeed, currentPosition |-> currentPosition,
     targetPosition |-> targetPosition, isMoving |-> isMoving,
     focuserConnected |-> focuserConnected]

\* a Communicator call writes the request frame
Write(S, c, d) == [S EXCEPT !.sent = Frame(c, d), !.wrote = TRUE]

\* initializeFocuser()
initializeFocuser(S) == Write(S, GET_VER, <<>>)

\* getFocuserPosition(): ok is sendCommand's result, answer its reply
getFocuserPosition(S, ok, answer) ==
    [Write(S, MC_GET_POSITION, <<>>) EXCEPT
        !.currentPosition = IF ok /\ Len(answer) >= 3 THEN PositionFrom(answer)
                            ELSE @]

\* moveFocuser(direction, speed)
moveFocuser(S, direction, speed) ==
    Write(S, IF direction = 1 THEN MC_MOVE_POS ELSE MC_MOVE_NEG, <<speed>>)

\* gotoPosition(position)
gotoPosition(S, position) == Write(S, MC_GOTO_FAST, PositionBytes(position))

\* stepFocuser(direction, steps, speed): the target it hands to gotoPosition
stepTarget(S, direction, steps) ==
    IF direction = 1 THEN S.currentPosition + steps
    ELSE IF steps > S.currentPosition THEN 0
    ELSE S.currentPosition - steps

\* stopFocuser()
stopFocuser(S) == Write(S, MC_MOVE_POS, <<0>>)

\* runDiagnostics, testBaudRates: auxSerial.write(testPacket), a GET_VER
\* request
writeTestPacket(S) == Write(S, GET_VER, <<>>)

\* handleCommand(command): ok is the result of the focuser function it calls
handleCommand(S, command, ok, answer) ==
    IF command = Ch.c
    THEN [initializeFocuser(S) EXCEPT !.focuserConnected = ok]
    ELSE IF command \in {Ch.what, Ch.i, Ch.w} THEN S
    ELSE IF command \in {Ch.d, Ch.t} THEN writeTestPacket(S)
    ELSE IF ~ S.focuserConnected THEN S
    ELSE IF command = Ch.plus
    THEN [moveFocuser(S, 1, S.currentSpeed) EXCEPT
             !.isMoving = IF ok THEN TRUE ELSE @]
    ELSE IF command = Ch.minus
    THEN [moveFocuser(S, 0, S.currentSpeed) EXCEPT
             !.isMoving = IF ok THEN TRUE ELSE @]
    ELSE IF command \in {Ch.s, Ch.zero}
    THEN [stopFocuser(S) EXCEPT !.isMoving = IF ok THEN FALSE ELSE @]
    ELSE IF command = Ch.p THEN getFocuserPosition(S, ok, answer)
    ELSE IF command >= 49 /\ command <= 57
    THEN [S EXCEPT !.currentSpeed = IF setSpeed(command - 48)
                                    THEN command - 48 ELSE @]
    ELSE S

\* handleGotoCommand: position == 0 && value != "0"
GotoArgumentInvalid(position, value) == position = 0 /\ value # <<48>>

\* handleGotoCommand(value): ok is gotoPosition's result
handleGotoCommand(S, value, ok) ==
    IF ~ S.focuserConnected THEN S
    ELSE LET position == parsePosition(value)
         IN  IF GotoArgumentInvalid(position, value) THEN S
             ELSE [gotoPosition(S, position) EXCEPT
                      !.targetPosition = IF ok THEN position ELSE @,
                      !.isMoving = IF ok THEN TRUE ELSE @]

\* processCommands that cuts the buffer one character later
Truncated_OneMore(buffer) ==
    IF Len(buffer) > MAX_COMMAND_LEN THEN SubSeq(buffer, 1, MAX_COMMAND_LEN)
    ELSE buffer

\* processCommands: if (commandBuffer.length() >= MAX_COMMAND_LEN)
\* commandBuffer = commandBuffer.substring(0, MAX_COMMAND_LEN - 1)
Truncated(buffer) ==
    IF Len(buffer) >= MAX_COMMAND_LEN
    THEN SubSeq(buffer, 1, MAX_COMMAND_LEN - 1)
    ELSE buffer

\* processCommands: the buffer after character c, before the dispatch
Buffered(buffer, c) ==
    IF c = LF \/ c = CR THEN buffer
    ELSE IF Printable(c) THEN Truncated(Append(buffer, c))
    ELSE buffer

\* processCommands: commandReady after character c
Ready(buffer, c) == (c = LF \/ c = CR) /\ Len(buffer) > 0

\* processCommands: the dispatch of a complete command line
dispatch(S, buffer, ok, answer) ==
    IF Len(buffer) = 1 THEN handleCommand(S, buffer[1], ok, answer)
    ELSE IF buffer[1] = Ch.g THEN handleGotoCommand(S, Tail(buffer), ok)
    ELSE S

\* handleWebFocuserCommand(command, doc): ok is the result of the focuser
\* function it calls
handleWebFocuserCommand(S, doc, ok, answer) ==
    IF doc.command = "connect" THEN initializeFocuser(S)
    ELSE IF doc.command = "getPosition" THEN getFocuserPosition(S, ok, answer)
    ELSE IF doc.command = "setSpeed"
    THEN [S EXCEPT !.currentSpeed = IF doc.speed >= 1 /\ doc.speed <= 9
                                    THEN doc.speed ELSE @]
    ELSE IF doc.command = "move"
    THEN [moveFocuser(S, IF doc.direction = "in" THEN 1 ELSE 0, doc.speed)
             EXCEPT !.isMoving = IF ok THEN TRUE ELSE @]
    ELSE IF doc.command = "step"
    THEN [gotoPosition(S, stepTarget(S, IF doc.direction = "in" THEN 1 ELSE 0,
                                     doc.steps))
             EXCEPT !.isMoving = IF ok THEN TRUE ELSE @]
    ELSE IF doc.command = "stop"
    THEN [stopFocuser(S) EXCEPT !.isMoving = IF ok THEN FALSE ELSE @]
    ELSE IF doc.command = "goto"
    THEN [gotoPosition(S, doc.position) EXCEPT
             !.targetPosition = IF ok THEN doc.position ELSE @,
             !.isMoving = IF ok THEN TRUE ELSE @]
    ELSE S

\* speeds a web client sends: doc["speed"].is<uint8_t>()
WebSpeeds == {9, 200}

\* positions a web client sends: doc["position"].is<uint32_t>()
WebPositions == {66051, 16777221}

Doc(command, direction, speed, steps, position) ==
    [command |-> command, direction |-> direction, speed |-> speed,
     steps |-> steps, position |-> position]

\* the web-socket focuser commands tried
WebDocs ==
    {Doc(c, "in", 5, 0, 0) : c \in {"connect", "getPosition", "stop"}}
    \cup {Doc("setSpeed", "in", v, 0, 0) : v \in WebSpeeds}
    \cup {Doc("move", "in", 200, 0, 0), Doc("move", "out", 9, 0, 0)}
    \cup {Doc("step", "in", 5, 300, 0)}
    \cup {Doc("goto", "in", 5, 0, q) : q \in WebPositions}

\* what a Communicator call gives: failure, a reply too short for a
\* position, a reply of three bytes
CallResults ==
    {[ok |-> FALSE, reply |-> <<>>], [ok |-> TRUE, reply |-> <<1, 2>>],
     [ok |-> TRUE, reply |-> <<1, 2, 3>>]}

\* a command line: the characters and the line end
Line(chars) == chars \o <<LF>>

\* the decimal digits d as characters
Digits(d) == [i \in DOMAIN d |-> 48 + d[i]]

\* n times the character c
Repeat(c, n) == [i \in 1..n |-> c]

\* what is typed on the console
ConsoleLines ==
    {Line(<<Ch.plus>>), Line(<<Ch.minus>>), Line(<<Ch.s>>), Line(<<Ch.zero>>),
     Line(<<Ch.p>>), Line(<<Ch.c>>), Line(<<Ch.d>>), Line(<<Ch.g>>),
     Line(<<Ch.nine>>) \o Line(<<Ch.plus>>),
     Line(<<Ch.one>>) \o <<CR>> \o Line(<<Ch.minus>>),
     Line(<<Ch.g>> \o Digits(<<0>>)),
     Line(<<Ch.g>> \o Digits(<<0, 0>>)),
     Line(<<Ch.g>> \o Digits(<<2, 5, 8>>)),
     Line(<<Ch.g>> \o Digits(<<1, 6, 7, 7, 7, 2, 2, 1>>)),
     Line(<<Ch.g, Ch.space, Ch.five>>),
     Line(<<Ch.g, Ch.five, Ch.x>>),
     Line(<<Ch.g, Ch.minus, Ch.five>>),
     Line(<<Ch.tab, Ch.plus, Ch.del>>),
     Line(Repeat(Ch.x, MAX_COMMAND_LEN + 1))}

\* setup() has run; a line is typed on the console
InitUi ==
    /\ Constructed
    /\ source = APP
    /\ todo = <<>>
    /\ watch = FALSE
    /\ CodecOff
    /\ at = "ui"
    /\ running = [t \in Tasks |-> Idle]
    /\ focuserConnected \in BOOLEAN
    /\ isMoving = FALSE
    /\ wifiInitialized \in BOOLEAN
    /\ reported = NoReport
    /\ millis = 0 /\ lastStatusCheck = 0 /\ currentTime = 0
    /\ currentSpeed = 5
    /\ currentPosition = 0
    /\ targetPosition = 0
    /\ commandBuffer = <<>>
    /\ serialIn \in ConsoleLines
    /\ sent = NoFrame
    /\ wrote = FALSE
    /\ WifiIdle

\* the handler returns: the globals as it leaves them
Apply(S) ==
    /\ sent' = S.sent
    /\ wrote' = S.wrote
    /\ currentSpeed' = S.currentSpeed
    /\ currentPosition' = S.currentPosition
    /\ targetPosition' = S.targetPosition
    /\ isMoving' = S.isMoving
    /\ focuserConnected' = S.focuserConnected

\* processCommands: one pass of its loop, with the dispatch of the command
\* when the character completes a line
ProcessChar ==
    /\ at = "ui"
    /\ serialIn # <<>>
    /\ \E r \in CallResults :
         LET c == Head(serialIn)
             buffer == Buffered(commandBuffer, c)
         IN  IF Ready(buffer, c)
             THEN /\ Apply(dispatch(Globals, buffer, r.ok, r.reply))
                  /\ commandBuffer' = <<>>
             ELSE /\ Apply(Globals)
                  /\ commandBuffer' = buffer
    /\ serialIn' = Tail(serialIn)
    /\ UNCHANGED <<commVars, codecVars, at, running, wifiInitialized, reported,
                   clockVars, wifiVars>>

\* a web-socket focuser command arrives and handleWebFocuserCommand runs
WebCommand ==
    /\ at = "ui"
    /\ wifiInitialized
    /\ \E doc \in WebDocs, r \in CallResults :
         Apply(handleWebFocuserCommand(Globals, doc, r.ok, r.reply))
    /\ UNCHANGED <<commVars, codecVars, at, running, wifiInitialized, reported,
                   clockVars, commandBuffer, serialIn, wifiVars>>

NextUi ==
    \/ ProcessChar
    \/ WebCommand

\* the command handlers of the console and of the web socket
SpecUi == InitUi /\ [][NextUi]_vars

\* ------------------------------------------------------------ WiFi manager

\* the networks a station can ask for
Ssids == {"home", "cafe", "shed"}

\* loadWiFiConfig: the SSID the preferences hold, "" when none is saved
SavedSsids == Ssids \cup {""}

\* the manager's fields and the driver's link state, with the return value
\* of the member function that ran last
Wifi ==
    [ssid |-> ssid, apMode |-> apMode, stationMode |-> stationMode,
     wifiConnected |-> wifiConnected, wlStatus |-> wlStatus, ret |-> FALSE]

\* _onWiFiEvent
onWiFiEvent(W, event) ==
    IF event = "STA_GOT_IP" THEN [W EXCEPT !.wifiConnected = TRUE]
    ELSE IF event = "STA_DISCONNECTED" THEN [W EXCEPT !.wifiConnected = FALSE]
    ELSE W

\* WiFi.disconnect(true): a station link that was up goes down, and the
\* driver reports it
wifiDisconnect(W) ==
    IF W.wlStatus
    THEN onWiFiEvent([W EXCEPT !.wlStatus = FALSE], "STA_DISCONNECTED")
    ELSE W

\* connectToWiFi; joined: WiFi.status() became WL_CONNECTED within
\* WIFI_CONNECT_TIMEOUT
connectToWiFi(W, joined) ==
    IF W.ssid = "" THEN [W EXCEPT !.ret = FALSE]
    ELSE IF joined
    THEN [onWiFiEvent([W EXCEPT !.wlStatus = TRUE], "STA_GOT_IP")
             EXCEPT !.wifiConnected = TRUE, !.ret = TRUE]
    ELSE [W EXCEPT !.wlStatus = FALSE, !.wifiConnected = FALSE, !.ret = FALSE]

\* startStation
startStation(W, joined) ==
    IF W.ssid = "" THEN [W EXCEPT !.ret = FALSE]
    ELSE connectToWiFi([wifiDisconnect(W) EXCEPT !.stationMode = TRUE,
                                                 !.apMode = FALSE],
                       joined)

\* startAP; success: what WiFi.softAP returned
startAP(W, success) ==
    IF success
    THEN [wifiDisconnect(W) EXCEPT !.apMode = TRUE, !.stationMode = FALSE,
                                   !.wifiConnected = TRUE, !.ret = TRUE]
    ELSE [wifiDisconnect(W) EXCEPT !.ret = FALSE]

\* begin, after the configuration is loaded
begin(W, joined, success) ==
    IF W.ssid # "" /\ startStation(W, joined).ret
    THEN startStation(W, joined)
    ELSE IF W.ssid # "" THEN startAP(startStation(W, joined), success)
    ELSE startAP(W, success)

\* the web socket can deliver a message: the access point is up, or the
\* station link is
Reachable == apMode \/ (stationMode /\ wlStatus)

\* the manager's fields after a member function has run
ApplyWifi(W) ==
    /\ ssid' = W.ssid
    /\ apMode' = W.apMode
    /\ stationMode' = W.stationMode
    /\ wifiConnected' = W.wifiConnected
    /\ wlStatus' = W.wlStatus

\* the record of the failure: cleared when a network is joined or the access
\* point starts
Failure(W, cause, failed) ==
    IF failed THEN cause
    ELSE IF W.ret THEN "none"
    ELSE failure

InitWifi ==
    /\ Constructed
    /\ source = APP
    /\ todo = <<>>
    /\ watch = FALSE
    /\ CodecOff
    /\ at = "setup"
    /\ running = [t \in Tasks |-> Idle]
    /\ focuserConnected = FALSE
    /\ isMoving = FALSE
    /\ wifiInitialized = FALSE
    /\ reported = NoReport
    /\ millis = 0 /\ lastStatusCheck = 0 /\ currentTime = 0
    /\ UiOff
    /\ ssid \in SavedSsids
    /\ apMode = FALSE /\ stationMode = FALSE /\ wifiConnected = FALSE
    /\ wlStatus = FALSE
    /\ inRange \in SUBSET Ssids
    /\ failure = "none"

\* setup: initializeWiFi calls wifiManager.begin()
InitializeWiFi ==
    /\ at = "setup"
    /\ \E success \in BOOLEAN :
         LET W == begin(Wifi, ssid \in inRange, success)
         IN  /\ ApplyWifi(W)
             /\ wifiInitialized' = W.ret
             /\ failure' = Failure(W, "startup",
                                   ssid # "" /\ ssid \notin inRange)
    /\ at' = "wifi"
    /\ UNCHANGED <<commVars, codecVars, running, focuserConnected, isMoving,
                   reported, clockVars, uiVars, inRange>>

\* handleWebSocketMessage: the command setWiFi
SetWiFi ==
    /\ at = "wifi" /\ wifiInitialized /\ Reachable
    /\ \E s \in SavedSsids :
         LET W == startStation([Wifi EXCEPT !.ssid = s], s \in inRange)
         IN  /\ ApplyWifi(W)
             /\ failure' = Failure(W, "setWiFi", s # "" /\ ~ W.ret)
    /\ UNCHANGED <<commVars, codecVars, at, running, focuserConnected,
                   isMoving, wifiInitialized, reported, clockVars, uiVars,
                   inRange>>

\* handleWebSocketMessage: the command clearWiFi
ClearWiFi ==
    /\ at = "wifi" /\ wifiInitialized /\ Reachable
    /\ \E success \in BOOLEAN :
         LET W == startAP([Wifi EXCEPT !.ssid = ""], success)
         IN  /\ ApplyWifi(W)
             /\ failure' = Failure(W, "none", FALSE)
    /\ UNCHANGED <<commVars, codecVars, at, running, focuserConnected,
                   isMoving, wifiInitialized, reported, clockVars, uiVars,
                   inRange>>

\* loop: wifiManager.handle() finds the reconnection due and calls
\* connectToWiFi
Reconnect ==
    /\ at = "wifi" /\ wifiInitialized
    /\ stationMode /\ ~ wifiConnected /\ ssid # ""
    /\ LET W == connectToWiFi(Wifi, ssid \in inRange)
       IN  /\ ApplyWifi(W)
           /\ failure' = Failure(W, "none", FALSE)
    /\ UNCHANGED <<commVars, codecVars, at, running, focuserConnected,
                   isMoving, wifiInitialized, reported, clockVars, uiVars,
                   inRange>>

\* the station link goes down and the driver delivers
\* ARDUINO_EVENT_WIFI_STA_DISCONNECTED
LinkLost ==
    /\ at = "wifi"
    /\ stationMode /\ wlStatus
    /\ ApplyWifi(onWiFiEvent([Wifi EXCEPT !.wlStatus = FALSE],
                             "STA_DISCONNECTED"))
    /\ failure' = "disconnect"
    /\ UNCHANGED <<commVars, codecVars, at, running, focuserConnected,
                   isMoving, wifiInitialized, reported, clockVars, uiVars,
                   inRange>>

\* a network comes into range or goes out of it
RangeChange ==
    /\ at = "wifi"
    /\ \E s \in Ssids :
         inRange' = IF s \in inRange THEN inRange \ {s} ELSE inRange \cup {s}
    /\ UNCHANGED <<commVars, codecVars, at, running, focuserConnected,
                   isMoving, wifiInitialized, reported, clockVars, uiVars,
                   ssid, apMode, stationMode, wifiConnected, wlStatus,
                   failure>>

NextWifi ==
    \/ InitializeWiFi
    \/ SetWiFi
    \/ ClearWiFi
    \/ Reconnect
    \/ LinkLost
    \/ RangeChange

\* the WiFi manager under the loop that keeps calling handle()
SpecWifi ==
    InitWifi /\ [][NextWifi]_vars /\ WF_vars(InitializeWiFi)
        /\ WF_vars(Reconnect)

TypeOK ==
    /\ pc \in {"idle", "loop", "read", "done"}
    /\ retryCount \in 0..(RETRY_COUNT + 1)

\* ---------------------------------------------------------------- claims
\* attempts of the current call whose loop test has passed
Attempts == IF retryCount > RETRY_COUNT THEN RETRY_COUNT ELSE retryCount

\* the step in which readPacket returns and sendCommand judges the response
Judged == pc = "read" /\ pc' # "read"

\* the response matches the request: command, source and destination
\* against the requested command, the requested destination, the local address
MatchesRequest(resp) ==
    resp.command = cmd /\ resp.source = dest /\ resp.destination = source

ReceiverFailures ==
    {"NoData", "RxSizeMismatch", "TooShort", "BadHeader", "SizeMismatch",
     "ChecksumMismatch"}

\* C1: one sendCommand call never writes the request frame to the transport
\* more than RETRY_COUNT times, whatever the transport does.
C1_AtMostRetryCountWrites == writes <= RETRY_COUNT

C1_Witness ==
    pc = "done" /\ result = "CommandFailed" /\ writes = RETRY_COUNT

\* C2: when every write of the call was complete and every read phase
\* failed, the call has made exactly RETRY_COUNT writes and RETRY_COUNT read
\* cycles when it returns, and it returns CommandFailed.
C2_RetryBound ==
    (pc = "done" /\ reads = writes /\ readFails = reads)
        => (writes = RETRY_COUNT /\ reads = RETRY_COUNT
            /\ result = "CommandFailed")

C2_Witness ==
    pc = "done" /\ reads = writes /\ readFails = reads /\ reads = RETRY_COUNT

\* C3: the receive phase of an attempt is over by the attempt's operation
\* deadline TIMEOUT_MS, also when the device keeps delivering bytes with gaps
\* shorter than the quiet interval: once TIMEOUT_MS have passed in readPacket
\* the receiver is not waiting for bytes any more.
C3_ReceiveWithinDeadline ==
    (pc = "read" /\ elapsed >= TIMEOUT_MS) => ~ StillWaiting(sinceLast)

\* C4: a decoded response is accepted if and only if its command is the
\* requested command, its source the requested destination and its
\* destination the Communicator's own local address.
C4_AcceptIffMatchesLocal ==
    last.kind \in {"Accepted", "Invalid"}
        => (last.kind = "Accepted" <=> MatchesRequest(last.resp))

\* C5: the attempt whose response passes validation ends the call: the call
\* returns that response's payload, after as many writes as attempts (one
\* when the first attempt succeeds), and nothing is written or read after.
C5_ReturnOnAccept ==
    [][/\ (Judged /\ last'.kind = "Accepted")
            => (pc' = "done" /\ result' = "ok" /\ reply' = last'.resp.data
                /\ writes' = retryCount' /\ reads' = reads + 1)
       /\ pc = "done"
            => (pc' = "done" /\ writes' = writes /\ reads' = reads
                /\ reply' = reply /\ result' = result)]_vars

C5_Witness ==
    pc = "done" /\ result = "ok" /\ writes = 1 /\ last.kind = "Accepted"
    /\ reply = last.resp.data /\ reply # <<>>

\* C6: a well-formed response that does not match the request in command,
\* source or destination costs one attempt and the call goes on to the next
\* attempt; a well-formed response that matches the request ends the call
\* with success and its payload, on whichever attempt it comes.
C6_MismatchRetries ==
    [][(Judged /\ last'.resp.ok)
          => IF MatchesRequest(last'.resp)
             THEN pc' = "done" /\ result' = "ok" /\ reply' = last'.resp.data
             ELSE pc' = "loop" /\ result' = "none" /\ reply' = reply
                  /\ retryCount' = retryCount]_vars

\* C7: every receiver failure ends the attempt and nothing else: the call
\* goes back to the loop with the caller's reply untouched, the next step is
\* the flush and write of a fresh attempt while attempts remain, and the call
\* ends only with success or CommandFailed.
C7_FailuresAbsorbed ==
    [][/\ (Judged /\ last'.kind \in ReceiverFailures)
            => (pc' = "loop" /\ result' = "none" /\ reply' = reply)
       /\ (pc = "loop" /\ retryCount < RETRY_COUNT)
            => (writes' = writes + 1 /\ input' = <<>> /\ rawData' = <<>>)
       /\ (pc = "loop" /\ retryCount >= RETRY_COUNT)
            => (pc' = "done" /\ result' = "CommandFailed")
       /\ pc' = "done" => result' \in {"ok", "CommandFailed"}]_vars

C7_Witness ==
    pc = "loop" /\ retryCount = 1 /\ last.kind = "ChecksumMismatch"
    /\ result = "none" /\ reply = <<9>>

\* C8: the bytes an attempt collects and hands to decode all arrived after
\* that attempt's write: what was unread before the write has been drained.
C8_NoStaleBytesDecoded ==
    /\ \A i \in DOMAIN rawData : rawData[i][2] = writes
    /\ \A i \in DOMAIN last.packet : last.packet[i][2] = writes
    /\ pc = "read" => \A i \in DOMAIN input : input[i][2] = writes

C8_Witness ==
    last.flushed > 0 /\ last.kind \in {"Accepted", "Invalid", "ChecksumMismatch"}

\* C9: a write that reports fewer bytes than the frame has fails the attempt:
\* no read cycle follows it, the attempt is used up, and the next step is
\* the flush and write of the next attempt, or the end of the call when no
\* attempt is left.
C9_ShortWriteFailsAttempt ==
    [][/\ (writes' = writes + 1 /\ last'.written < Len(last'.frame))
            => (pc' = "loop" /\ reads' = reads /\ rawData' = <<>>
                /\ retryCount' = retryCount + 1)
       /\ (pc = "loop" /\ last.kind = "ShortWrite")
            => IF retryCount < RETRY_COUNT
               THEN writes' = writes + 1 /\ input' = <<>> /\ reads' = reads
               ELSE pc' = "done" /\ result' = "CommandFailed"
                    /\ reads' = reads]_vars

C9_Witness ==
    pc = "read" /\ writes = 2 /\ reads = 0 /\ last.kind = "Reading"

\* C10: a call with k attempts has made exactly k writes and at most k read
\* cycles, the one in progress included.
C10_OneWritePerAttempt ==
    /\ writes = Attempts
    /\ reads + (IF pc = "read" THEN 1 ELSE 0) <= Attempts

C10_Witness ==
    pc = "done" /\ result = "ok" /\ writes = 3 /\ reads = 2

\* C11: commandBlind encodes the frame and writes it exactly once, never
\* retries, never reads or validates a response, and returns Written exactly
\* when the transport reported the whole encoded frame as written.
C11_BlindWritesOnce ==
    /\ writes <= 1
    /\ reads = 0 /\ rawData = <<>> /\ reply = <<9>>
    /\ pc = "done" =>
         /\ writes = 1
         /\ last.frame = fillBuffer(Packet(source, dest, cmd, data))
         /\ (result = "Written") <=> (last.written = Len(last.frame))
         /\ result \in {"Written", "WriteError"}

\* a commandBlind call that returned WriteError after a partial write, while
\* a frame of the device was still on its way
C11_Witness ==
    /\ pc = "done" /\ result = "WriteError" /\ writes = 1
    /\ last.written > 0
    /\ line # <<>>

\* C12: after the request is written the receiver waits for the first
\* response byte up to the operation deadline TIMEOUT_MS: it reports NoData
\* only when no byte at all arrived before the deadline.
C12_FirstByteUntilDeadline ==
    last.kind = "NoData" => sinceLast >= TIMEOUT_MS

\* C13: bytes that arrive one at a time with every gap shorter than the quiet
\* interval are all appended, in arrival order, to one candidate frame: each
\* byte restarts the timer, a byte that is available before the quiet
\* interval has run out is never left behind, and the candidate is finalized
\* only after a gap of at least the quiet interval has followed its last byte.
C13_GapsBelowQuietJoin ==
    [][/\ (pc = "read" /\ rawData' # rawData) =>
            /\ rawData' = Append(rawData, Head(input))
            /\ sinceLast' = 0
            /\ pc' = "read"
       /\ (pc = "read" /\ input # <<>> /\ sinceLast < QUIET_MS) =>
            /\ ~ Judged
            /\ \/ rawData' = Append(rawData, Head(input))
               \/ /\ rawData' = rawData
                  /\ input' # <<>> /\ Head(input') = Head(input)
       /\ Judged =>
            /\ sinceLast >= QUIET_MS
            /\ Len(last'.packet) >= Len(rawData)
            /\ SubSeq(last'.packet, Len(last'.packet) - Len(rawData) + 1,
                      Len(last'.packet)) = rawData]_vars

\* a byte that arrived after a gap shorter than the quiet interval is about to
\* join the bytes already collected
C13_Witness ==
    /\ pc = "read"
    /\ Len(rawData) >= 2
    /\ sinceLast > 0 /\ sinceLast < QUIET_MS
    /\ input # <<>>

\* the bytes the decoder must be given for the collected bytes raw
Sentineled(raw) == IF raw[1] = AUX_HDR THEN raw ELSE <<AUX_HDR>> \o raw

\* C14: on finalization, collected bytes that do not start with the sentinel
\* 0x3B get exactly one sentinel prepended before decoding, and bytes that
\* start with it are decoded unchanged.
C14_SentinelPrepended ==
    last.kind \notin {"None", "Reading", "ShortWrite", "NoData", "Blind"} =>
        /\ rawData # <<>>
        /\ Bytes(last.packet) = Sentineled(Bytes(rawData))
        /\ last.kind # "RxSizeMismatch" =>
               last.resp = parse(Sentineled(Bytes(rawData)))

\* a reply that arrived without its sentinel was completed and accepted
C14_Witness ==
    /\ last.kind = "Accepted"
    /\ rawData # <<>>
    /\ Bytes(rawData)[1] # AUX_HDR
    /\ Len(last.packet) = Len(rawData) + 1

\* C16: a payload returned by sendCommand always comes from a frame the
\* device emitted in reply to the request written in that same attempt: the
\* device began to send every byte of it after that write, never before it
\* (as a reply to an earlier attempt, sendCommand or commandBlind must have).
C16_ReplyToSameAttempt ==
    result = "ok" => \A i \in DOMAIN rawData : rawData[i][3] = writes

\* C16 as amended: a payload returned by sendCommand comes from a frame all
\* of whose bytes arrived after the request of that same attempt was written,
\* and that frame carries the command and the source of the request; when
\* the device began to send it is not constrained.
C16_ReplyArrivedAfterWrite ==
    result = "ok" =>
        /\ rawData # <<>>
        /\ \A i \in DOMAIN rawData : rawData[i][2] = writes
        /\ last.resp = parse(Bytes(last.packet))
        /\ last.resp.command = cmd /\ last.resp.source = dest
        /\ reply = last.resp.data

\* the second attempt returned the payload of a frame the device had begun
\* to send before the second request was written
C16_Witness ==
    /\ result = "ok" /\ writes = 2
    /\ \A i \in DOMAIN rawData : rawData[i][3] = 1 /\ rawData[i][2] = 2
    /\ rawData # <<>>

\* C17: for every source, destination, command and payload of 0..252 bytes,
\* decoding the bytes encode produced succeeds and yields the same source,
\* destination, command and payload.
C17_RoundTrip ==
    (cstep = "decoded" /\ buf = fillBuffer(pkt) /\ Len(pkt.data) <= 252) =>
        /\ dec.ok /\ dec.err = "None"
        /\ dec.source = pkt.source
        /\ dec.destination = pkt.destination
        /\ dec.command = pkt.command
        /\ dec.data = pkt.data
        /\ dec.length = pkt.length

\* a frame with the largest payload went through encode and decode
C17_Witness ==
    /\ cstep = "decoded" /\ buf = fillBuffer(pkt)
    /\ Len(pkt.data) = 252 /\ dec.ok /\ dec.data = pkt.data

\* C18: encode fails with PayloadTooLarge, producing no frame, whenever the
\* payload has more than 252 bytes; it never produces a frame whose length
\* byte disagrees with the number of bytes serialized.
C18_PayloadTooLargeRejected ==
    cstep = "encoded" =>
        /\ Len(pkt.data) > 252 => buf = <<>>
        /\ buf # <<>> => Len(buf) = buf[2] + 3

\* C19: for every frame encode produces from a payload of 0..252 bytes, the
\* length field is 3 + payload length and the buffer has exactly length + 3
\* bytes: sentinel, length, source, destination, command, payload, checksum.
C19_FrameLayout ==
    (cstep = "encoded" /\ Len(pkt.data) <= 252) =>
        /\ Len(buf) = Len(pkt.data) + 6
        /\ buf[1] = AUX_HDR
        /\ buf[2] = 3 + Len(pkt.data)
        /\ Len(buf) = buf[2] + 3
        /\ buf[3] = pkt.source
        /\ buf[4] = pkt.destination
        /\ buf[5] = pkt.command
        /\ SubSeq(buf, 6, Len(buf) - 1) = pkt.data
        /\ \A i \in DOMAIN buf : buf[i] \in 0..255

\* a frame with a three-byte payload has been encoded
C19_Witness ==
    cstep = "encoded" /\ Len(pkt.data) = 3 /\ Len(buf) = 9 /\ buf[2] = 6

\* sum of the bytes b[lo..hi]
RECURSIVE ByteSum(_, _, _)
ByteSum(b, lo, hi) ==
    IF lo > hi THEN 0
    ELSE IF lo = hi THEN b[lo]
    ELSE ByteSum(b, lo, (lo + hi) \div 2) + ByteSum(b, (lo + hi) \div 2 + 1, hi)

\* two's complement modulo 256 of the sum from the length field through the
\* last payload byte
Complement(b) == (256 - (ByteSum(b, 2, Len(b) - 1) % 256)) % 256

\* a buffer of valid size that starts with the sentinel
WellFramed(b) == Len(b) >= 6 /\ b[1] = AUX_HDR /\ Len(b) = b[2] + 3

\* C20: the checksum encode appends and the checksum decode recomputes are
\* both the two's complement modulo 256 of the sum of the bytes from the
\* length field through the last payload byte, and decode rejects with
\* ChecksumMismatch every buffer of valid size and header whose trailing byte
\* differs from it.
C20_Checksum ==
    /\ (cstep = "encoded" /\ Len(pkt.data) <= 252) =>
           buf[Len(buf)] = Complement(buf)
    /\ (cstep = "decoded" /\ WellFramed(buf)) =>
           /\ (buf[Len(buf)] # Complement(buf)) <=> (dec.err = "ChecksumMismatch")
           /\ (buf[Len(buf)] = Complement(buf)) <=> dec.ok

\* decode rejected a frame whose trailing byte alone had changed
C20_Witness ==
    /\ cstep = "decoded" /\ WellFramed(buf)
    /\ dec.err = "ChecksumMismatch"
    /\ buf # fillBuffer(pkt)
    /\ SubSeq(buf, 1, Len(buf) - 1) = SubSeq(fillBuffer(pkt), 1, Len(buf) - 1)

\* C15: across the main loop's status polling, the console command handlers
\* and the web-socket focuser command handlers, at most one sendCommand or
\* commandBlind call is in flight at any time: no call starts while another
\* one has not yet returned.
C15_OneCallInFlight ==
    [][/\ Cardinality(InFlight) <= 1
       /\ \A t \in Tasks :
            (running'[t].op # "none" /\ running'[t] # running[t]) =>
                InFlight \subseteq {t}
       /\ \A t \in Tasks :
            (running[t].op = "none" /\ running'[t].op # "none") =>
                InFlight = {}]_vars

\* a web-socket focuser command has its call in flight on loopTask while the
\* network task serves an HTTP request
C15_Witness ==
    /\ running["loop"].origin = "web"
    /\ running["loop"].op = "commandBlind"
    /\ running["async"].origin = "http"
    /\ InFlight = {"loop"}

\* a valid frame went through Tamper and Decode, and the one bit that was
\* flipped is in the bytes from the length byte through the last payload byte
FlippedInBody ==
    /\ cstep = "decoded" /\ Len(pkt.data) <= 252
    /\ Len(buf) = pkt.length + 3
    /\ \/ <<buf[2], buf[3], buf[4], buf[5]>> #
             <<pkt.length, pkt.source, pkt.destination, pkt.command>>
       \/ SubSeq(buf, 6, Len(buf) - 1) # pkt.data

\* the flip has changed the sum of the bytes the checksum covers: the sum no
\* longer cancels the checksum of the frame
SumChanged == (ByteSum(buf, 2, Len(buf) - 1) + buf[Len(buf)]) % 256 # 0

\* C21: flipping any single bit in the bytes from the length byte through the
\* last payload byte of a valid frame makes decode return ChecksumMismatch,
\* unless the flip preserves the sum modulo 256.
C21_BitFlipIsChecksumMismatch ==
    (FlippedInBody /\ SumChanged) => dec.err = "ChecksumMismatch"

\* C21 as amended: a single bit flipped in the bytes from the source byte
\* through the last payload byte makes decode return ChecksumMismatch; a
\* single bit flipped in the length byte makes it return SizeMismatch; no
\* single bit flip preserves the sum, and decode never succeeds.
C21_BitFlipRejected ==
    FlippedInBody =>
        /\ ~ dec.ok
        /\ SumChanged
        /\ buf[2] = pkt.length => dec.err = "ChecksumMismatch"
        /\ buf[2] # pkt.length => dec.err = "SizeMismatch"

\* decode met a frame with one bit of its last payload byte flipped
C21_Witness ==
    /\ FlippedInBody
    /\ Len(pkt.data) = 3
    /\ buf[8] # pkt.data[3]
    /\ dec.err = "ChecksumMismatch"

\* parse has judged the raw buffer
Parsed == cstep \in {"parsed", "received"}

\* C22: decode rejects every buffer shorter than 6 bytes as TooShort, whatever
\* its first byte, its length byte and its last byte are.
C22_SizeFloor ==
    (Parsed /\ Len(buf) < 6) => (~ dec.ok /\ dec.err = "TooShort")

\* a 5-byte buffer that starts with the sentinel was rejected as TooShort
C22_Witness ==
    /\ Parsed
    /\ Len(buf) = 5
    /\ buf[1] = AUX_HDR
    /\ dec.err = "TooShort"

\* C23: decode rejects as BadHeader every buffer of at least 6 bytes whose
\* first byte is not the sentinel 0x3B, whatever its length byte and checksum.
C23_HeaderCheck ==
    (Parsed /\ Len(buf) >= 6 /\ buf[1] # AUX_HDR) =>
        (~ dec.ok /\ dec.err = "BadHeader")

\* a 6-byte buffer with a fitting length byte and the sentinel's low seven
\* bits in its first byte was rejected as BadHeader
C23_Witness ==
    /\ Parsed
    /\ Len(buf) = 6
    /\ buf[1] = AUX_HDR + 128
    /\ buf[2] = 3
    /\ dec.err = "BadHeader"

\* C24: decode rejects as SizeMismatch every buffer of at least 6 bytes that
\* starts with the sentinel and whose size differs from buffer[1] + 3, and
\* readPacket's own size test rejects exactly the same buffers.
C24_SizeConsistency ==
    (cstep = "received" /\ Len(buf) >= 6 /\ buf[1] = AUX_HDR) =>
        /\ Len(buf) # buf[2] + 3 <=> dec.err = "SizeMismatch"
        /\ dec.err = "SizeMismatch" <=> last.kind = "RxSizeMismatch"
        /\ Bytes(last.packet) = buf

\* a 7-byte buffer that announces 6 bytes was rejected by both
C24_Witness ==
    /\ cstep = "received"
    /\ Len(buf) = 7
    /\ buf[1] = AUX_HDR
    /\ buf[2] = 3
    /\ dec.err = "SizeMismatch"
    /\ last.kind = "RxSizeMismatch"

\* C25: encoding source 0x20, destination 0x12, command 0xFE with an empty
\* payload gives exactly 3B 03 20 12 FE CD, the bytes of the diagnostic test
\* packet.
C25_LiteralVector ==
    (cstep = "encoded" /\ pkt = Packet(APP, FOCUSER, GET_VER, <<>>)) =>
        /\ buf = <<59, 3, 32, 18, 254, 205>>
        /\ buf = testPacket

\* the packet from APP to FOCUSER with GET_VER and no payload was encoded
C25_Witness ==
    /\ cstep = "encoded"
    /\ pkt.source = 32 /\ pkt.destination = 18 /\ pkt.command = 254
    /\ pkt.data = <<>>
    /\ Len(buf) = 6

\* C26: when sendCommand returns failure the caller's reply buffer holds the
\* bytes it held before the call: reply is assigned only in the step that
\* accepts a response, and the payload of a rejected response never gets
\* into it.
C26_ReplyUntouchedOnFailure ==
    [][/\ reply' # reply => (Judged /\ last'.kind = "Accepted" /\ result' = "ok")
       /\ (Judged /\ last'.kind # "Accepted") => reply' = reply
       /\ result' = "CommandFailed" => reply' = <<9>>]_vars

\* the call failed after its last attempt decoded a response with a payload
\* and rejected it
C26_Witness ==
    /\ pc = "done" /\ result = "CommandFailed"
    /\ last.kind = "Invalid" /\ last.resp.ok /\ last.resp.data # <<>>
    /\ reply = <<9>>

\* C27: for every non-empty byte sequence the receiver collects, the receiver
\* and the decoder read no index at or beyond the buffer's size: the length
\* byte packet[1] that readPacket reads after the wait loop is inside the
\* packet, and a packet too short to be a frame ends as a receive failure.
C27_NoReadBeyondBuffer ==
    (last.kind \notin {"None", "Reading", "ShortWrite", "NoData", "Blind"}) =>
        /\ Len(last.packet) >= 2
        /\ Len(last.packet) < 6 => last.kind \in ReceiverFailures

\* readPacket decoded the headless frame to the fields of the full frame
SameAsFull ==
    /\ last.kind = "None" /\ last.resp.ok
    /\ last.resp.source = dec.source
    /\ last.resp.destination = dec.destination
    /\ last.resp.command = dec.command
    /\ last.resp.data = dec.data
    /\ Bytes(last.packet) = buf

\* C28: for every valid frame, with any length byte from 3 to 255, a response
\* delivered without its leading sentinel is received and decoded to the same
\* source, destination, command and payload as the frame delivered in full.
C28_HeadlessDecodesAsFull ==
    (cstep = "headless" /\ dec.ok) => SameAsFull

\* C28 as amended: a valid frame delivered without its leading sentinel is
\* decoded to the fields of the full frame when its length byte is not 0x3B;
\* when its length byte is 0x3B the rest of the frame is taken for a frame
\* that has its sentinel, and it is not decoded to the fields of the full
\* frame.
C28_HeadlessUnlessLength3B ==
    (cstep = "headless" /\ dec.ok) =>
        /\ buf[2] # AUX_HDR => SameAsFull
        /\ buf[2] = AUX_HDR =>
               (~ SameAsFull /\ Bytes(last.packet) = Tail(buf))

\* a valid frame with length byte 255 arrived without its sentinel and was
\* decoded to its 252-byte payload
C28_Witness ==
    /\ cstep = "headless" /\ dec.ok
    /\ buf[2] = 255
    /\ last.resp.ok
    /\ Len(last.resp.data) = 252
    /\ last.resp.data = pkt.data

\* C29: while focuserConnected is false no move, stop, goto, step or position
\* query is written to the AUX transport and isMoving stays as it is,
\* whichever interface the command comes from: only a connect request starts
\* a Communicator call.
C29_NothingSentWhileDisconnected ==
    [][(~ focuserConnected) =>
          /\ \A t \in Tasks :
               (running[t].op = "none" /\ running'[t].op # "none") =>
                   running'[t].name = "connect"
          /\ isMoving' = isMoving]_vars

\* C30: after any connect request that reports success focuserConnected is
\* true, whether the request came at startup, from the serial 'c' command or
\* from the web command focuser:connect; after a failed serial 'c'
\* focuserConnected is false.
C30_ConnectedAfterConnect ==
    reported.name = "connect" =>
        /\ reported.ok => focuserConnected
        /\ (reported.origin = "console" /\ ~ reported.ok) => ~ focuserConnected

\* checkFocuserStatus is entered from loop() and sends MC_SLEW_DONE
PollStarts ==
    /\ running["loop"] = Idle
    /\ running'["loop"] = Handler("status", "slewDone")

\* the MC_SLEW_DONE call of checkFocuserStatus returns
PollEnds ==
    /\ running["loop"] = Handler("status", "slewDone")
    /\ running'["loop"] # Handler("status", "slewDone")

\* C31: while the focuser is connected and isMoving is true the main loop
\* polls MC_SLEW_DONE at most once per STATUS_CHECK_INTERVAL: a poll starts
\* only when connected and moving and at least STATUS_CHECK_INTERVAL ms after
\* the poll before it started.  When the reply of a poll begins with 0xFF,
\* isMoving becomes false and the position is queried; when the reply is
\* empty, begins with another byte or the poll fails, isMoving stays true,
\* the focuser stays connected and the next poll is due one interval after
\* this one started.
C31_StatusPolling ==
    [][/\ PollStarts =>
            /\ focuserConnected /\ isMoving
            /\ millis - currentTime >= STATUS_CHECK_INTERVAL
            /\ currentTime' = millis
       /\ PollEnds =>
            IF reported'.ok /\ reported'.reply # <<>> /\ reported'.reply[1] = 255
            THEN /\ ~ isMoving'
                 /\ running'["loop"] = Handler("status", "getPosition")
            ELSE /\ isMoving' /\ focuserConnected'
                 /\ running'["loop"] = Idle
                 /\ lastStatusCheck' = currentTime]_vars

\* a second poll, started an interval or more after the first, got a reply
\* that begins with 0xFF: isMoving is cleared and the position query runs
C31_Witness ==
    /\ reported = [origin |-> "status", name |-> "slewDone", ok |-> TRUE,
                   reply |-> <<255>>]
    /\ ~ isMoving
    /\ running["loop"] = Handler("status", "getPosition")
    /\ lastStatusCheck >= STATUS_CHECK_INTERVAL
    /\ currentTime - lastStatusCheck >= STATUS_CHECK_INTERVAL

\* C32: every MC_MOVE_POS or MC_MOVE_NEG frame written to the AUX transport
\* carries a one-byte move rate from 0 to 9, for every sequence of console
\* and web-socket commands.
C32_MoveRateInRange ==
    sent.cmd \in {MC_MOVE_POS, MC_MOVE_NEG} =>
        (Len(sent.data) = 1 /\ sent.data[1] >= 0 /\ sent.data[1] <= 9)

\* C33: gotoPosition sends the target as three big-endian bytes and
\* getFocuserPosition rebuilds a position from three big-endian bytes: after
\* a successful goto, which stores the requested position in targetPosition,
\* the value decoded from the three bytes sent equals the stored
\* targetPosition.
C33_TargetIsWhatWasSent ==
    [][(wrote' /\ sent'.cmd = MC_GOTO_FAST /\ targetPosition' # targetPosition)
          => (Len(sent'.data) = 3 /\ PositionFrom(sent'.data) = targetPosition')]_vars

\* processCommands reads the line end of a goto command while the focuser is
\* connected
GotoDispatched ==
    /\ serialIn # <<>>
    /\ Head(serialIn) \in {LF, CR}
    /\ Len(commandBuffer) > 1
    /\ commandBuffer[1] = Ch.g
    /\ serialIn' = Tail(serialIn)
    /\ focuserConnected

\* the argument of the goto command consists of decimal digits only
AllDigits(value) ==
    value # <<>> /\ \A i \in DOMAIN value : value[i] >= 48 /\ value[i] <= 57

\* C34: a serial goto command whose argument is empty or contains a character
\* that is not a digit is rejected: nothing is written to the AUX transport
\* and targetPosition and isMoving keep their values; an argument that
\* consists only of decimal digits is accepted and sent.
C34_GotoArgumentChecked ==
    [][GotoDispatched =>
          IF AllDigits(Tail(commandBuffer))
          THEN wrote' /\ sent'.cmd = MC_GOTO_FAST
          ELSE /\ ~ wrote' /\ sent' = sent
               /\ targetPosition' = targetPosition
               /\ isMoving' = isMoving]_vars

\* processCommands reads the line end of a non-empty command
Dispatched ==
    /\ serialIn # <<>>
    /\ Ready(commandBuffer, Head(serialIn))
    /\ serialIn' = Tail(serialIn)

\* C35: after every character processed by processCommands the command buffer
\* holds at most MAX_COMMAND_LEN - 1 characters, all of them printable, and it
\* is empty again after each dispatched command.
C35_CommandBufferBounded ==
    [][/\ Len(commandBuffer') <= MAX_COMMAND_LEN - 1
       /\ \A i \in DOMAIN commandBuffer' :
              commandBuffer'[i] >= 32 /\ commandBuffer'[i] <= 126
       /\ Dispatched => commandBuffer' = <<>>]_vars

\* a line longer than the buffer has filled it to MAX_COMMAND_LEN - 1
\* characters and more input is waiting
C35_Witness ==
    Len(commandBuffer) = MAX_COMMAND_LEN - 1 /\ Len(serialIn) = 1

\* C36: whenever an attempt to join a station network has failed or the
\* station link was lost, at startup with saved credentials, after a setWiFi
\* command or on a disconnect event, the WiFi manager ends up in access-point
\* mode.
C36_FallsBackToAccessPoint ==
    (wifiInitialized /\ failure # "none") ~> apMode

====
